---- MODULE Spec2Model ----
(***************************************************************************)
(* The latency measurement engine of client/client.js (class App): the     *)
(* turn window driven by the local volume loop, the echo triggers, the     *)
(* 8000 ms timers, the agent data messages and the session set-up and      *)
(* tear-down around them.                                                  *)
(*                                                                         *)
(* Every handler of the page runs to completion on the single JavaScript   *)
(* thread, so one action is one handler (or one stretch of an async        *)
(* function between two awaits).  Times are Date.now() values in ms; null  *)
(* is written 0 (Date.now() is never 0, and the code only ever tests these *)
(* fields for truthiness).  Fractional numbers carried by agent messages   *)
(* are written in tenths of a millisecond.                                 *)
(*                                                                         *)
(* run.sh, the script that starts and stops the services around the page,  *)
(* is modelled next to it: one action is one command, or one function the  *)
(* script runs from its first command to its return or to the exit of the  *)
(* shell, with the processes and containers of the host as its environment.*)
(*                                                                         *)
(* The beep latency tester (class LatencyTester) runs on the same page     *)
(* against the client object it finds in window.livekitClient: the object  *)
(* whose isConnected, room and log it uses, which is the App above.  Its   *)
(* times are performance.now() values, written in tenths of a millisecond. *)
(***************************************************************************)
EXTENDS Integers, Sequences, FiniteSets, Bags, TLC

\* ---------------------------------------------------------------- bounds
MaxTime == 12000     \* the clock stops advancing here
MaxTimers == 2       \* pending 8000 ms timers
MaxRecords == 2      \* history length explored by the engine specifications
HistLimit == 22      \* history length explored by SpecHistory
MaxTests == 2        \* tests a LatencyTester starts in SpecTester
MaxPerf == 8000      \* performance.now() stops advancing here in SpecTester, in ms
HistTests == 12      \* tests a LatencyTester starts in SpecTesterHistory
HistPerf == 2500     \* performance.now() stops advancing here in SpecTesterHistory

\* ------------------------------------------------------ program constants
SpeechThreshold == 5     \* isSpeaking = volumeLevel > 5
EchoThreshold == 5       \* average > 5
TurnTimeout == 8000      \* setTimeout(..., 8000)
HistoryCap == 20         \* latencyMeasurements.length > 20
GreenBelow == 300        \* latency < 300
YellowBelow == 600       \* latency < 600
MaxHistorySize == 10     \* this.maxHistorySize = 10
TestTimeout == 5000      \* setTimeout(..., 5000) of sendBeep

\* ------------------------------------------------------------ input sets
TimeSteps == {4000}          \* how far the clock moves in one step
Levels == {5, 6}             \* microphone level read by a tick
Averages == {5, 6}           \* remote energy read by checkAudioActivity
Joins == {1, 2, 3}            \* the joinRoom invocations of one behaviour
FirstJoins == {1, 2}          \* those of a behaviour without a rejoin
PerfSteps == {10006}          \* how far performance.now() moves in one step, in tenths

VARIABLES
    \* fields of App
    isConnected, isProcessingResponse, isWaitingForEcho,
    speechStartTime, conversationStartTime,
    latencyMeasurements, room,
    \* the page elements App writes
    latencyValue, avgLatencyValue, joinBtnDisabled, leaveBtnDisabled,
    \* the runtime around App
    now,            \* Date.now()
    timers,         \* bag of pending setTimeout callbacks
    pc,             \* position of each joinRoom invocation: idle, connect, mic, then
                    \* done (monitoring started), unmonitored (it could not) or failed
    roomState,      \* state of the Room each joinRoom created
    leaving,        \* room a leaveRoom is awaiting disconnect() of, 0 if none
    volumeLoops,    \* updateVolume loops rescheduling themselves
    audioEls,       \* attached remote audio elements with play/canplay listeners
    echoLoops,      \* checkAudioActivity loops rescheduling themselves
    \* observers
    win,            \* what happened since the current window / turn began
    lastOp,         \* the handler that ran last and what it did
    \* run.sh
    shell,          \* the shell running run.sh: its position, variables and exit
    host,           \* the processes and the containers running on the host
    steps,          \* observer: the steps of the command begun so far, in order
    \* LatencyTester
    tester,         \* the fields of the LatencyTester and its pending callbacks
    lastTest        \* observer: the tester callback that ran last, and the tests so far

fields == <<isConnected, isProcessingResponse, isWaitingForEcho, speechStartTime,
            conversationStartTime, latencyMeasurements, room>>
page == <<latencyValue, avgLatencyValue, joinBtnDisabled, leaveBtnDisabled>>
runtime == <<now, timers, pc, roomState, leaving, volumeLoops, audioEls, echoLoops>>
observers == <<win, lastOp>>
script == <<shell, host, steps>>
bench == <<tester, lastTest>>
vars == <<fields, page, runtime, observers, script, bench>>

\* --------------------------------------------------------------- helpers
Min(a, b) == IF a <= b THEN a ELSE b

RECURSIVE Sum(_)
Sum(s) == IF s = <<>> THEN 0 ELSE Head(s) + Sum(Tail(s))

\* Math.round of x / y for y > 0: floor(x / y + 1/2)
RoundDiv(x, y) == (2 * x + y) \div (2 * y)

\* Math.round of a number given in tenths
RoundTenths(t) == RoundDiv(t, 10)

\* NaN, which Math.round gives for a value that is not a number; the latencies
\* themselves are never negative
NaN == -1
HasNaN(ms) == \E i \in 1..Len(ms) : ms[i] = NaN

\* Math.round(reduce(a + b) / length); a NaN entry makes the sum NaN
AvgLatency(ms) == IF HasNaN(ms) THEN NaN ELSE RoundDiv(Sum(ms), Len(ms))

\* the colour coding used on every display path; every comparison with NaN is false
ColorOf(v) == IF v = NaN THEN "red"
              ELSE IF v < GreenBelow THEN "green"
              ELSE IF v < YellowBelow THEN "yellow" ELSE "red"

Shown(v) == [kind |-> "value", val |-> v, color |-> ColorOf(v)]
Placeholder == [kind |-> "placeholder", val |-> 0, color |-> "none"]
ProcessingText == [kind |-> "processing", val |-> 0, color |-> "yellow"]
Unset == [kind |-> "unset", val |-> 0, color |-> "none"]

Op(n, o, a) == [name |-> n, outcome |-> o, arg |-> a]

NoWin == [active |-> FALSE, openedAt |-> 0, endedAt |-> 0, records |-> 0, timeouts |-> 0,
          expired |-> FALSE]

\* ---------------------------------------------------------------- Init
\* the LatencyTester as its constructor leaves it: no test running, an empty
\* history, no listener on the room, no timeout pending, nothing being sent
NoTester == [isTestRunning |-> FALSE, testStartTime |-> 0, latencyHistory |-> <<>>,
             cleanupListener |-> 0, listeners |-> {}, timeouts |-> {},
             sending |-> {}, perfNow |-> 0]

\* getStats() and logStatistics of an empty history
ZeroStats == [average |-> 0, min |-> 0, max |-> 0, count |-> 0]

\* test is the number of the test begun last, ends counts the times endTest
\* took effect since it began, by is the test whose callback ran, all is every
\* latency endTest ever stored, in order
NoTest == [op |-> "init", outcome |-> "none", by |-> 0, test |-> 0, ends |-> 0,
           all |-> <<>>, stats |-> ZeroStats]

\* no run.sh is running and nothing of its environment is known yet
NoShell == [pc |-> "idle", cmd |-> "none", exited |-> FALSE, status |-> 0,
            name |-> "none", timeout |-> 0, count |-> 0, ret |-> "none",
            livekit_running |-> FALSE, redis_running |-> FALSE, errexit |-> FALSE]
NoHost == [running |-> {}, up |-> {}]

Init ==
    /\ isConnected = FALSE /\ isProcessingResponse = FALSE /\ isWaitingForEcho = FALSE
    /\ speechStartTime = 0 /\ conversationStartTime = 0
    /\ latencyMeasurements = <<>>
    /\ room = 0
    /\ latencyValue = Unset /\ avgLatencyValue = Unset
    /\ joinBtnDisabled = FALSE /\ leaveBtnDisabled = TRUE
    /\ now \in TimeSteps
    /\ timers = EmptyBag
    /\ pc = [j \in Joins |-> "idle"]
    /\ roomState = [j \in Joins |-> "none"]
    /\ leaving = 0
    /\ volumeLoops = 0 /\ audioEls = 0 /\ echoLoops = 0
    /\ win = NoWin /\ lastOp = Op("init", "none", 0)
    /\ shell = NoShell /\ host = NoHost /\ steps = <<>>
    /\ tester = NoTester /\ lastTest = NoTest

\* ------------------------------------------------------------ updateUI
\* joinBtn.disabled = isConnected; leaveBtn.disabled = !isConnected || isProcessingResponse
UpdateUI(conn, proc) ==
    /\ joinBtnDisabled' = conn
    /\ leaveBtnDisabled' = (~conn \/ proc)

\* limits of one specification: lim.records caps the history length, lim.joins
\* are the joinRoom invocations that may be clicked
EngineLimits == [records |-> MaxRecords, joins |-> FirstJoins]
HistoryLimits == [records |-> HistLimit, joins |-> FirstJoins]
SessionLimits == [records |-> MaxRecords, joins |-> Joins]

\* ------------------------------------------------- updateVolume (a tick)
IsSpeaking(level) == level > SpeechThreshold

\* mutant: the speech-start branch without its isProcessingResponse gate
SpeechStartBranch_Ungated(level) == IsSpeaking(level)

\* if (isSpeaking && !this.isProcessingResponse)
SpeechStartBranch(level) == IsSpeaking(level) /\ ~isProcessingResponse

\* else if (!isSpeaking && this.isProcessingResponse && this.speechStartTime)
SpeechEndBranch(level) ==
    ~IsSpeaking(level) /\ isProcessingResponse /\ speechStartTime # 0

\* the window the observers attribute events to begins anew
WinOpened ==
    [NoWin EXCEPT !.active = TRUE,
                  !.openedAt = IF isWaitingForEcho THEN win.openedAt ELSE now,
                  !.endedAt = IF isWaitingForEcho THEN win.endedAt ELSE 0]

\* the first silent tick of the window is the turn's speech end
WinEnded ==
    [win EXCEPT !.endedAt = IF win.active /\ @ = 0 THEN now ELSE @]

\* the timer the speech-end branch arms
ArmedTimer == [deadline |-> now + TurnTimeout, turn |-> speechStartTime, room |-> room]

\* body of updateVolume once isConnected has been tested; the buttons are
\* written by the caller (updateUI runs in the speech-start branch only)
UpdateVolumeBody(level, lim) ==
    /\ IF SpeechStartBranch(level) THEN
          /\ speechStartTime' = now
          /\ isProcessingResponse' = TRUE
          /\ isWaitingForEcho' = TRUE
          /\ win' = WinOpened
          /\ lastOp' = Op("tick", "Start", level)
          /\ UNCHANGED <<timers>>
       ELSE IF SpeechEndBranch(level) THEN
          /\ BagCardinality(timers) < MaxTimers
          /\ timers' = timers (+) SetToBag({ArmedTimer})
          /\ win' = WinEnded
          /\ lastOp' = Op("tick", "End", level)
          /\ UNCHANGED <<speechStartTime, isProcessingResponse, isWaitingForEcho>>
       ELSE
          /\ lastOp' = Op("tick", "none", level)
          /\ UNCHANGED <<speechStartTime, isProcessingResponse, isWaitingForEcho,
                         timers, win>>

\* one animation frame of a running updateVolume loop
Tick(level, lim) ==
    /\ UNCHANGED <<script, bench>>
    /\ volumeLoops > 0
    /\ IF ~isConnected THEN
          \* if (!this.isConnected) return;   the loop is not rescheduled
          /\ volumeLoops' = volumeLoops - 1
          /\ lastOp' = Op("tick", "exit", 0)
          /\ UNCHANGED <<fields, page, now, timers, pc, roomState, leaving,
                         audioEls, echoLoops, win>>
       ELSE
          /\ UpdateVolumeBody(level, lim)
          /\ IF SpeechStartBranch(level)
                THEN UpdateUI(isConnected, TRUE)
                ELSE UNCHANGED <<joinBtnDisabled, leaveBtnDisabled>>
          /\ UNCHANGED <<isConnected, conversationStartTime, latencyMeasurements,
                         room, latencyValue, avgLatencyValue,
                         now, pc, roomState, leaving, volumeLoops, audioEls, echoLoops>>

\* ------------------------------------------ the setTimeout callback
\* if (this.isProcessingResponse) { ... }
TimeoutCloses == isProcessingResponse

\* the timeout of the turn the observers follow has elapsed with no echo recorded
Expires(t) == win.active /\ t.turn = speechStartTime /\ win.records = 0

TimerFire(t) ==
    /\ UNCHANGED <<script, bench>>
    /\ BagIn(t, timers)
    /\ t.deadline <= now
    /\ timers' = timers (-) SetToBag({t})
    /\ IF TimeoutCloses THEN
          /\ isProcessingResponse' = FALSE
          /\ isWaitingForEcho' = FALSE
          /\ UpdateUI(isConnected, FALSE)
          /\ win' = [win EXCEPT !.timeouts = @ + 1, !.expired = @ \/ Expires(t)]
          /\ lastOp' = Op("timer", "TimedOut", t.turn)
       ELSE
          /\ win' = [win EXCEPT !.expired = @ \/ Expires(t)]
          /\ lastOp' = Op("timer", "none", t.turn)
          /\ UNCHANGED <<isProcessingResponse, isWaitingForEcho,
                         joinBtnDisabled, leaveBtnDisabled>>
    /\ UNCHANGED <<isConnected, speechStartTime, conversationStartTime,
                   latencyMeasurements, room,
                   latencyValue, avgLatencyValue,
                   now, pc, roomState, leaving, volumeLoops, audioEls, echoLoops>>

\* ------------------------------------------------------------ the clock
Deadlines == {t.deadline : t \in BagToSet(timers)}

\* a timer runs when its delay has elapsed: the clock does not pass a deadline
Advance(d) ==
    /\ UNCHANGED <<script, bench>>
    /\ now + d <= MaxTime
    /\ \A dl \in Deadlines : dl > now
    /\ now' = IF \E dl \in Deadlines : dl < now + d
                 THEN CHOOSE dl \in Deadlines : \A o \in Deadlines : dl <= o
                 ELSE now + d
    /\ lastOp' = Op("advance", "none", 0)
    /\ UNCHANGED <<fields, page, timers, pc, roomState, leaving, volumeLoops,
                   audioEls, echoLoops, win>>

\* ------------------------------------------------ handleAgentAudioStart
\* mutant: the guard without its isWaitingForEcho test
EchoGuard_AnyTime == speechStartTime # 0

\* if (this.isWaitingForEcho && this.speechStartTime)
EchoGuard == isWaitingForEcho /\ speechStartTime # 0

\* const latency = echoTime - this.speechStartTime
EchoLatency == now - speechStartTime

\* this.latencyMeasurements.push(latency)   (no eviction on this path)
LocalRecord(ms, latency) == Append(ms, latency)

HandleAgentAudioStart(src, lim) ==
    IF EchoGuard THEN
        /\ Len(latencyMeasurements) < lim.records
        /\ latencyMeasurements' = LocalRecord(latencyMeasurements, EchoLatency)
        /\ latencyValue' = Shown(EchoLatency)
        /\ avgLatencyValue' = Shown(AvgLatency(latencyMeasurements'))
        /\ isProcessingResponse' = FALSE
        /\ isWaitingForEcho' = FALSE
        /\ UpdateUI(isConnected, FALSE)
        /\ win' = [win EXCEPT !.records = @ + 1]
        /\ lastOp' = Op("echo", "record", EchoLatency)
    ELSE
        /\ lastOp' = Op("echo", "none", 0)
        /\ UNCHANGED <<latencyMeasurements, latencyValue, avgLatencyValue,
                       isProcessingResponse, isWaitingForEcho, joinBtnDisabled, leaveBtnDisabled, win>>

\* the audio element's play and canplay listeners
AudioEvent(kind, lim) ==
    /\ UNCHANGED <<script, bench>>
    /\ audioEls > 0
    /\ HandleAgentAudioStart(kind, lim)
    /\ UNCHANGED <<isConnected, speechStartTime, conversationStartTime,
                   room, runtime>>

\* one animation frame of a running checkAudioActivity loop
CheckAudioActivity(average, lim) ==
    /\ UNCHANGED <<script, bench>>
    /\ echoLoops > 0
    /\ IF isWaitingForEcho /\ average > EchoThreshold /\ isWaitingForEcho
          /\ speechStartTime # 0
          THEN HandleAgentAudioStart("energy", lim)
          ELSE /\ lastOp' = Op("echo", "none", 0)
               /\ UNCHANGED <<latencyMeasurements, latencyValue, avgLatencyValue,
                              isProcessingResponse, isWaitingForEcho, joinBtnDisabled, leaveBtnDisabled, win>>
    /\ UNCHANGED <<isConnected, speechStartTime, conversationStartTime,
                   room, runtime>>

\* ------------------------------------------- triggerTestLatencyMeasurement
TriggerTest(lim) ==
    /\ UNCHANGED <<script, bench>>
    /\ isConnected          \* if (!this.isConnected) { log; return; }
    /\ speechStartTime' = now
    /\ isProcessingResponse' = TRUE
    /\ isWaitingForEcho' = TRUE
    /\ win' = WinOpened
    /\ lastOp' = Op("trigger", "Start", 0)
    /\ UNCHANGED <<isConnected, conversationStartTime,
                   latencyMeasurements, room, page, runtime>>

\* ------------------------------------------------------------- joinRoom
\* click on joinBtn: new Room, setupRoomEventListeners, await room.connect
JoinClick(j) ==
    /\ UNCHANGED <<script, bench>>
    /\ ~joinBtnDisabled
    /\ pc[j] = "idle"
    /\ \A i \in Joins : i < j => pc[i] # "idle"
    /\ room' = j
    /\ roomState' = [roomState EXCEPT ![j] = "created"]
    /\ pc' = [pc EXCEPT ![j] = "connect"]
    /\ lastOp' = Op("join", "connecting", 0)
    /\ UNCHANGED <<isConnected, isProcessingResponse, isWaitingForEcho, speechStartTime,
                   conversationStartTime, latencyMeasurements,
                   page, now, timers, leaving,
                   volumeLoops, audioEls, echoLoops, win>>

\* room.connect settles; a rejection is caught by joinRoom, which only reports it
ConnectSettles(j, ok) ==
    /\ UNCHANGED <<script, bench>>
    /\ pc[j] = "connect"
    /\ ok => roomState[j] = "created"
    /\ pc' = [pc EXCEPT ![j] = IF ok THEN "mic" ELSE "failed"]
    /\ roomState' = [roomState EXCEPT ![j] = IF ok THEN "connected" ELSE @]
    /\ lastOp' = Op("join", IF ok THEN "connected" ELSE "failed", 0)
    /\ UNCHANGED <<fields, page, now, timers, leaving, volumeLoops, audioEls,
                   echoLoops, win>>

\* enableMicrophone throws (no permission, no track, publishTrack rejects, or
\* this.room was set to null meanwhile); joinRoom catches and reports it
MicFails(j) ==
    /\ UNCHANGED <<script, bench>>
    /\ pc[j] = "mic"
    /\ pc' = [pc EXCEPT ![j] = "failed"]
    /\ lastOp' = Op("join", "failed", 0)
    /\ UNCHANGED <<isConnected, isProcessingResponse, isWaitingForEcho, speechStartTime,
                   conversationStartTime, latencyMeasurements,
                   room, page, now, timers, roomState, leaving,
                   volumeLoops, audioEls, echoLoops, win>>

\* updateVolume() as startVolumeMonitoring calls it: if (!this.isConnected) return;
FirstUpdateRuns == isConnected

\* the end of enableMicrophone and of joinRoom, one task: the track is published,
\* startVolumeMonitoring builds the analyser (or fails and is caught) and calls
\* updateVolume() once, then joinRoom sets isConnected = true and calls updateUI
JoinCompletes(j, graphOk, level, lim) ==
    /\ UNCHANGED <<script, bench>>
    /\ pc[j] = "mic"
    /\ room # 0
    /\ pc' = [pc EXCEPT ![j] = IF graphOk THEN "done" ELSE "unmonitored"]
    /\ isConnected' = TRUE
    /\ IF graphOk /\ FirstUpdateRuns THEN
          /\ UpdateVolumeBody(level, lim)
          /\ volumeLoops' = volumeLoops + 1
       ELSE
          /\ lastOp' = Op("join", "completed", 0)
          /\ UNCHANGED <<speechStartTime, isProcessingResponse,
                         isWaitingForEcho, timers,
                         win, volumeLoops>>
    /\ UpdateUI(TRUE, isProcessingResponse')
    /\ UNCHANGED <<conversationStartTime, latencyMeasurements, room, latencyValue,
                   avgLatencyValue, now, roomState, leaving, audioEls, echoLoops>>

\* mutant: checkAudioActivity is started although building the analyser threw
TrackSubscribed_LoopAnyway(j, graphOk) ==
    /\ UNCHANGED <<script, bench>>
    /\ roomState[j] = "connected"
    /\ audioEls = 0
    /\ audioEls' = audioEls + 1
    /\ echoLoops' = echoLoops + 1
    /\ lastOp' = Op("track", IF graphOk THEN "probe" ELSE "no graph", 0)
    /\ UNCHANGED <<fields, page, now, timers, pc, roomState, leaving, volumeLoops,
                   win>>

\* ------------------------------------------ RoomEvent.TrackSubscribed
\* attach the element, add the play / canplay listeners; setupAudioLatencyDetection
\* starts checkAudioActivity unless building its analyser throws
TrackSubscribed(j, graphOk) ==
    /\ UNCHANGED <<script, bench>>
    /\ roomState[j] = "connected"
    /\ audioEls = 0          \* the agent publishes one audio track
    /\ audioEls' = audioEls + 1
    /\ echoLoops' = IF graphOk THEN echoLoops + 1 ELSE echoLoops
    /\ lastOp' = Op("track", IF graphOk THEN "probe" ELSE "no graph", 0)
    /\ UNCHANGED <<fields, page, now, timers, pc, roomState, leaving, volumeLoops,
                   win>>

\* --------------------------------------------- RoomEvent.Disconnected
RoomDisconnected(j) ==
    /\ UNCHANGED <<script, bench>>
    /\ roomState[j] = "connected"
    /\ roomState' = [roomState EXCEPT ![j] = "closed"]
    /\ isConnected' = FALSE
    /\ isProcessingResponse' = FALSE
    /\ isWaitingForEcho' = FALSE
    /\ latencyValue' = Placeholder
    /\ UpdateUI(FALSE, FALSE)
    /\ win' = NoWin
    /\ lastOp' = Op("disconnected", "reset", 0)
    /\ UNCHANGED <<speechStartTime, conversationStartTime,
                   latencyMeasurements, room, avgLatencyValue, now, timers, pc, leaving, volumeLoops, audioEls, echoLoops>>

\* ------------------------------------------------------------ leaveRoom
\* click on leaveBtn: the state is cleaned up, the track stopped, and (when there
\* is a room) room.disconnect() awaited; with no room the rest runs at once
LeaveClick ==
    /\ UNCHANGED <<script, bench>>
    /\ ~leaveBtnDisabled
    /\ leaving = 0
    /\ isConnected' = FALSE
    /\ isProcessingResponse' = FALSE
    /\ isWaitingForEcho' = FALSE
    /\ conversationStartTime' = 0
    /\ speechStartTime' = 0
    /\ win' = NoWin
    /\ IF room # 0 THEN
          /\ leaving' = room
          /\ lastOp' = Op("leave", "disconnecting", 0)
          /\ UNCHANGED <<latencyValue, joinBtnDisabled, leaveBtnDisabled>>
       ELSE
          /\ leaving' = 0
          /\ UpdateUI(FALSE, FALSE)
          /\ latencyValue' = Placeholder
          /\ lastOp' = Op("leave", "left", 0)
    /\ UNCHANGED <<latencyMeasurements, room, avgLatencyValue, now, timers, pc, roomState, volumeLoops, audioEls, echoLoops>>

\* room.disconnect() has settled (its Disconnected event, if any, was delivered):
\* this.room = null, updateUI, the latency display is reset; when disconnect()
\* rejected the catch block does the same but leaves the latency display alone
LeaveCompletes(ok) ==
    /\ UNCHANGED <<script, bench>>
    /\ leaving # 0
    /\ ok => roomState[leaving] # "connected"
    /\ leaving' = 0
    /\ room' = 0
    /\ isConnected' = IF ok THEN isConnected ELSE FALSE
    /\ UpdateUI(isConnected', isProcessingResponse)
    /\ latencyValue' = IF ok THEN Placeholder ELSE latencyValue
    /\ lastOp' = Op("leave", IF ok THEN "left" ELSE "left with errors", 0)
    /\ UNCHANGED <<isProcessingResponse, isWaitingForEcho, speechStartTime,
                   conversationStartTime, latencyMeasurements,
                   avgLatencyValue, now, timers, pc, roomState,
                   volumeLoops, audioEls, echoLoops, win>>

\* ------------------------------------- RoomEvent.DataReceived, handleAgentData
\* what the agent can send: the message type, the latency_ms field (absent, null,
\* a string that is not a number, or a number in tenths of a ms) and the
\* timestamp of processing_start
ServerTenths == {0, 4504}
LatencyFields == {[tag |-> t, val |-> 0] : t \in {"missing", "null", "str"}}
                   \cup {[tag |-> "num", val |-> v] : v \in ServerTenths}
Timestamps == {7}
NoField == [tag |-> "missing", val |-> 0]
Messages ==
    {[type |-> "processing_start", latency_ms |-> NoField, timestamp |-> ts] :
        ts \in Timestamps}
    \cup {[type |-> ty, latency_ms |-> f, timestamp |-> 0] :
        ty \in {"processing_complete", "latency_update"}, f \in LatencyFields}
    \cup {[type |-> ty, latency_ms |-> NoField, timestamp |-> 0] :
        ty \in {"unknown", "untyped", "null", "unparseable"}}

\* JSON.parse throws on the payload, or it parses to null and data.type throws:
\* both land in the catch of the DataReceived handler
Caught(m) == m.type \in {"unparseable", "null"}

\* mutant: a type the switch does not know is handled as processing_complete
Dispatch_CompleteByDefault(m) ==
    IF m.type \in {"processing_start", "processing_complete", "latency_update"}
       THEN m.type ELSE "processing_complete"

\* the case of switch (data.type) that runs
Dispatch(m) ==
    IF m.type \in {"processing_start", "processing_complete", "latency_update"}
       THEN m.type ELSE "default"

\* JavaScript truthiness of data.latency_ms
Truthy(f) == (f.tag = "num" /\ f.val # 0) \/ f.tag = "str"

\* if (data.latency_ms)
CompleteAccepts(f) == Truthy(f)

\* if (data.latency_ms && data.latency_ms > 0): the string compares as NaN
UpdateAccepts(f) == Truthy(f) /\ f.tag = "num" /\ f.val > 0

\* Math.round(data.latency_ms)
RoundOf(f) == IF f.tag = "num" THEN RoundTenths(f.val) ELSE NaN

\* mutant: the new value is put at the front (unshift) and the newest entry
\* is dropped past the cap
ServerRecord_Unshift(ms, latency) ==
    LET pushed == <<latency>> \o ms
    IN  IF Len(pushed) > HistoryCap THEN SubSeq(pushed, 1, HistoryCap) ELSE pushed

\* push, then shift once when the length exceeds 20
ServerRecord(ms, latency) ==
    LET pushed == Append(ms, latency)
    IN  IF Len(pushed) > HistoryCap THEN Tail(pushed) ELSE pushed

\* the value processing_complete displays
CompleteShown(f) == Shown(RoundOf(f))

\* how the observers name a processing_complete whose latency_ms was recorded
Recorded(f) == IF f.tag = "num" THEN "record" ELSE "record NaN"

\* how the observers name a report whose latency_ms was not recorded
Ignored(f) == IF f.tag = "num" THEN "dropped" ELSE "none"

HandleAgentData(m, lim) ==
    CASE Dispatch(m) = "processing_start" ->
            /\ isProcessingResponse' = TRUE
            /\ conversationStartTime' = m.timestamp
            /\ latencyValue' = ProcessingText
            /\ UpdateUI(isConnected, TRUE)
            /\ lastOp' = Op(m.type, "none", m.latency_ms.val)
            /\ UNCHANGED <<latencyMeasurements, avgLatencyValue>>
      [] Dispatch(m) = "processing_complete" ->
            /\ isProcessingResponse' = FALSE
            /\ IF CompleteAccepts(m.latency_ms) THEN
                  /\ Len(latencyMeasurements) < lim.records
                  /\ latencyMeasurements' =
                        ServerRecord(latencyMeasurements, RoundOf(m.latency_ms))
                  /\ latencyValue' = CompleteShown(m.latency_ms)
                  /\ lastOp' = Op(m.type, Recorded(m.latency_ms), m.latency_ms.val)
               ELSE
                  /\ lastOp' = Op(m.type, Ignored(m.latency_ms), m.latency_ms.val)
                  /\ UNCHANGED <<latencyMeasurements, latencyValue>>
            /\ UpdateUI(isConnected, FALSE)
            /\ UNCHANGED <<conversationStartTime, avgLatencyValue>>
      [] Dispatch(m) = "latency_update" ->
            /\ IF UpdateAccepts(m.latency_ms) THEN
                  /\ Len(latencyMeasurements) < lim.records
                  /\ latencyMeasurements' =
                        ServerRecord(latencyMeasurements, RoundOf(m.latency_ms))
                  /\ latencyValue' = Shown(RoundOf(m.latency_ms))
                  /\ avgLatencyValue' = Shown(AvgLatency(latencyMeasurements'))
                  /\ lastOp' = Op(m.type, "record", m.latency_ms.val)
               ELSE
                  /\ lastOp' = Op(m.type, Ignored(m.latency_ms), m.latency_ms.val)
                  /\ UNCHANGED <<latencyMeasurements, latencyValue, avgLatencyValue>>
            /\ UNCHANGED <<isProcessingResponse, conversationStartTime,
                           joinBtnDisabled, leaveBtnDisabled>>
      [] OTHER ->
            \* default: the type is logged
            /\ lastOp' = Op(m.type, "logged", m.latency_ms.val)
            /\ UNCHANGED <<isProcessingResponse, conversationStartTime,
                           latencyMeasurements, latencyValue, avgLatencyValue,
                           joinBtnDisabled, leaveBtnDisabled>>

DataReceived(j, m, lim) ==
    /\ UNCHANGED <<script, bench>>
    /\ roomState[j] = "connected"
    /\ IF Caught(m) THEN
          \* catch (error) { this.log(...) }
          /\ lastOp' = Op(m.type, "parse error", 0)
          /\ UNCHANGED <<isProcessingResponse, conversationStartTime,
                         latencyMeasurements, page>>
       ELSE HandleAgentData(m, lim)
    /\ UNCHANGED <<isConnected, isWaitingForEcho, speechStartTime, room, runtime, win>>

\* ---------------------------------------------------- showLatencyStatistics
\* (the second definition in the class, which is the one that runs)
Under600 == 600

\* [...measurements].sort((a, b) => a - b)
Insert(x, s) ==
    LET k == Cardinality({i \in 1..Len(s) : s[i] <= x})
    IN  SubSeq(s, 1, k) \o <<x>> \o SubSeq(s, k + 1, Len(s))

RECURSIVE Sorted(_)
Sorted(ms) ==
    IF ms = <<>> THEN <<>>
    ELSE Insert(ms[Len(ms)], Sorted(SubSeq(ms, 1, Len(ms) - 1)))

\* Math.round(measurements.reduce((a, b) => a + b, 0) / measurements.length)
StatAvg(ms) == RoundDiv(Sum(ms), Len(ms))

\* Math.min(...measurements), Math.max(...measurements)
StatMin(ms) ==
    CHOOSE v \in {ms[i] : i \in 1..Len(ms)} : \A i \in 1..Len(ms) : v <= ms[i]
StatMax(ms) ==
    CHOOSE v \in {ms[i] : i \in 1..Len(ms)} : \A i \in 1..Len(ms) : v >= ms[i]

\* mutant: the median is read from the history as it stands, unsorted
Median_Unsorted(ms) ==
    IF Len(ms) % 2 = 0
       THEN RoundDiv(ms[Len(ms) \div 2] + ms[Len(ms) \div 2 + 1], 2)
       ELSE ms[Len(ms) \div 2 + 1]

\* sorted[length / 2 - 1] and sorted[length / 2] are the elements length / 2 and
\* length / 2 + 1 of a sequence indexed from 1
Median(ms) ==
    LET sorted == Sorted(ms)
    IN  IF Len(sorted) % 2 = 0
           THEN RoundDiv(sorted[Len(sorted) \div 2] + sorted[Len(sorted) \div 2 + 1], 2)
           ELSE sorted[Len(sorted) \div 2 + 1]

\* measurements.filter(m => m < 600).length
UnderCount(ms) == Cardinality({i \in 1..Len(ms) : ms[i] < Under600})

\* Math.round((under600 / measurements.length) * 100)
Percentage(ms) == RoundDiv(100 * UnderCount(ms), Len(ms))

\* what the two log lines print
Statistics(ms) ==
    [count |-> Len(ms), avg |-> StatAvg(ms), min |-> StatMin(ms), max |-> StatMax(ms),
     median |-> Median(ms), under600 |-> UnderCount(ms), percentage |-> Percentage(ms)]

\* the method is public and reads the history only; it logs and changes nothing
ShowLatencyStatistics ==
    /\ UNCHANGED <<script, bench>>
    /\ lastOp' = IF Len(latencyMeasurements) = 0
                    THEN Op("stats", "none", 0)
                    ELSE Op("stats", "logged", Statistics(latencyMeasurements))
    /\ UNCHANGED <<fields, page, runtime, win>>


\* ==================================================================== run.sh
\* what is_running looks for, and the services of docker-compose.yml
Processes == {"supervisor.py", "spawn_agent.py", "http.server"}
Services == {"livekit", "redis"}
Commands == {"start", "stop"}

\* local timeout=${2:-10} and the timeouts cleanup_everything passes
DefaultTimeout == 10
SupervisorTimeout == 15
AgentTimeout == 10
HttpTimeout == 5

\* the calls of stop_process: where the script stands before the call, what it
\* passes, and where it stands after the return
CallSites == {"cleanup:1", "cleanup:2", "cleanup:3", "agent:1", "agent:2"}
StopCall(p) ==
    CASE p = "cleanup:1" ->
            [name |-> "supervisor.py", timeout |-> SupervisorTimeout, next |-> "cleanup:2"]
      [] p = "cleanup:2" ->
            [name |-> "spawn_agent.py", timeout |-> AgentTimeout, next |-> "cleanup:3"]
      [] p = "cleanup:3" ->
            [name |-> "http.server", timeout |-> HttpTimeout, next |-> "cleanup:rest"]
      [] p = "agent:1" ->
            [name |-> "spawn_agent.py", timeout |-> DefaultTimeout, next |-> "agent:2"]
      [] p = "agent:2" ->
            [name |-> "supervisor.py", timeout |-> DefaultTimeout, next |-> "agent:launch"]

\* exit, or a command that fails under set -e
Exited(sh, st) == [sh EXCEPT !.pc = "exited", !.exited = TRUE, !.status = st]

\* is_running "$name"
IsRunning(name) == name \in host.running

\* ./run.sh start | stop on a host with some processes and containers left over;
\* every command modelled begins with cleanup_everything.  Whether a (( )) that
\* evaluates to 0 ends a set -e shell depends on the bash that runs the script.
RunScript(c, strict, procs, ups) ==
    /\ shell.pc = "idle"
    /\ shell' = [NoShell EXCEPT !.pc = "cleanup:1", !.cmd = c, !.errexit = strict]
    /\ host' = [running |-> procs, up |-> ups]
    /\ steps' = <<"cleanup">>
    /\ UNCHANGED <<fields, page, runtime, observers, bench>>

\* stop_process up to its loop: if is_running, pkill -f "$name" || true; count=0
StopProcessCall(p) ==
    /\ shell.pc = p
    /\ LET c == StopCall(p)
       IN  shell' = IF IsRunning(c.name)
                       THEN [shell EXCEPT !.pc = "stop_process:wait", !.name = c.name,
                                          !.timeout = c.timeout, !.count = 0,
                                          !.ret = c.next]
                       ELSE [shell EXCEPT !.pc = c.next]
    /\ steps' = IF p = "agent:1" THEN Append(steps, "agent") ELSE steps
    /\ UNCHANGED <<host, fields, page, runtime, observers, bench>>

\* ((count++)) returns 1 when count was 0, and set -e then ends the script
CountFails(sh) == sh.errexit /\ sh.count = 0

\* while is_running "$name" && [ $count -lt $timeout ]; do sleep 1; ((count++)); done
StopProcessWait ==
    /\ shell.pc = "stop_process:wait"
    /\ shell' = IF IsRunning(shell.name) /\ shell.count < shell.timeout
                   THEN IF CountFails(shell)
                           THEN Exited(shell, 1)
                           ELSE [shell EXCEPT !.count = @ + 1]
                   ELSE [shell EXCEPT !.pc = "stop_process:kill"]
    /\ UNCHANGED <<host, steps, fields, page, runtime, observers, bench>>

\* if is_running "$name"; then pkill -9 -f "$name" || true; fi; return
StopProcessKill ==
    /\ shell.pc = "stop_process:kill"
    /\ host' = [host EXCEPT !.running = @ \ {shell.name}]
    /\ shell' = [shell EXCEPT !.pc = shell.ret]
    /\ UNCHANGED <<steps, fields, page, runtime, observers, bench>>

\* the rest of cleanup_everything: pkill -9 of the agents, docker-compose down
\* (which may fail: || true), prune, rm, sleep; then back in the case statement
CleanupRest(downOk) ==
    /\ shell.pc = "cleanup:rest"
    /\ host' = [running |-> host.running \ {"spawn_agent.py", "supervisor.py"},
                up |-> IF downOk THEN {} ELSE host.up]
    /\ shell' = IF shell.cmd = "start" THEN [shell EXCEPT !.pc = "prereq"]
                                       ELSE Exited(shell, 0)
    /\ UNCHANGED <<steps, fields, page, runtime, observers, bench>>

\* check_prerequisites
CheckPrerequisites(ok) ==
    /\ shell.pc = "prereq"
    /\ steps' = Append(steps, "prerequisites")
    /\ shell' = IF ok THEN [shell EXCEPT !.pc = "docker"] ELSE Exited(shell, 1)
    /\ UNCHANGED <<host, fields, page, runtime, observers, bench>>

\* mutant: one of the two services is enough
DockerVerified_Either(lk, rd) == lk \/ rd

\* [ "$livekit_running" = "true" ] && [ "$redis_running" = "true" ]
DockerVerified(lk, rd) == lk /\ rd

\* start_docker_services: both services Up already, or docker-compose up -d
\* (upOk), the health check of LiveKit (healthy) and the second reading of
\* docker-compose ps, which finds the services in after Up
StartDockerServices(upOk, healthy, after) ==
    /\ shell.pc = "docker"
    /\ steps' = Append(steps, "docker")
    /\ LET read(ups) == [shell EXCEPT !.livekit_running = "livekit" \in ups,
                                      !.redis_running = "redis" \in ups]
           first == read(host.up)
           second == read(after)
       IN  IF DockerVerified(first.livekit_running, first.redis_running) THEN
              /\ shell' = [first EXCEPT !.pc = "http"]
              /\ UNCHANGED host
           ELSE IF ~upOk \/ ~healthy THEN
              /\ shell' = Exited(first, 1)
              /\ host' = [host EXCEPT !.up = after]
           ELSE
              /\ shell' = IF DockerVerified(second.livekit_running,
                                            second.redis_running)
                              THEN [second EXCEPT !.pc = "http"]
                              ELSE Exited(second, 1)
              /\ host' = [host EXCEPT !.up = after]
    /\ UNCHANGED <<fields, page, runtime, observers, bench>>

\* sleep 2; start_http_server: lsof finds port 8000 taken (inUse), or the server
\* is started and is_running finds it (ok) or does not
StartHttpServer(inUse, ok) ==
    /\ shell.pc = "http"
    /\ steps' = Append(steps, "http")
    /\ IF inUse THEN
          /\ shell' = [shell EXCEPT !.pc = "agent:1"]
          /\ UNCHANGED host
       ELSE IF ok THEN
          /\ shell' = [shell EXCEPT !.pc = "agent:1"]
          /\ host' = [host EXCEPT !.running = @ \cup {"http.server"}]
       ELSE
          /\ shell' = Exited(shell, 1)
          /\ UNCHANGED host
    /\ UNCHANGED <<fields, page, runtime, observers, bench>>

\* start_supervised_agent after its two stop_process calls:
\* python3 supervisor.py &; sleep 3; is_running "supervisor.py"
LaunchSupervisor(ok) ==
    /\ shell.pc = "agent:launch"
    /\ IF ok THEN
          /\ shell' = [shell EXCEPT !.pc = "status"]
          /\ host' = [host EXCEPT !.running = @ \cup {"supervisor.py"}]
       ELSE
          /\ shell' = Exited(shell, 1)
          /\ UNCHANGED host
    /\ UNCHANGED <<steps, fields, page, runtime, observers, bench>>

\* show_status and the closing log lines; the script ends
ShowStatus ==
    /\ shell.pc = "status"
    /\ steps' = Append(steps, "status")
    /\ shell' = Exited(shell, 0)
    /\ UNCHANGED <<host, fields, page, runtime, observers, bench>>

\* the host while the script runs: a process exits (signalled or not), the
\* supervisor spawns its agent, a container stops
ProcessExits(p) ==
    /\ shell.pc # "idle" /\ ~shell.exited
    /\ p \in host.running
    /\ host' = [host EXCEPT !.running = @ \ {p}]
    /\ UNCHANGED <<shell, steps, fields, page, runtime, observers, bench>>

SupervisorSpawns ==
    /\ shell.pc # "idle" /\ ~shell.exited
    /\ "supervisor.py" \in host.running /\ "spawn_agent.py" \notin host.running
    /\ host' = [host EXCEPT !.running = @ \cup {"spawn_agent.py"}]
    /\ UNCHANGED <<shell, steps, fields, page, runtime, observers, bench>>

ContainerStops(c) ==
    /\ shell.pc # "idle" /\ ~shell.exited
    /\ c \in host.up
    /\ host' = [host EXCEPT !.up = @ \ {c}]
    /\ UNCHANGED <<shell, steps, fields, page, runtime, observers, bench>>


\* run.sh start and run.sh stop, one invocation, with the host around it
NextScript ==
    \/ \E c \in Commands, strict \in BOOLEAN, procs \in SUBSET Processes,
          ups \in SUBSET Services : RunScript(c, strict, procs, ups)
    \/ \E p \in CallSites : StopProcessCall(p)
    \/ StopProcessWait
    \/ StopProcessKill
    \/ \E downOk \in BOOLEAN : CleanupRest(downOk)
    \/ \E ok \in BOOLEAN : CheckPrerequisites(ok)
    \/ \E upOk \in BOOLEAN, healthy \in BOOLEAN, after \in SUBSET Services :
          StartDockerServices(upOk, healthy, after)
    \/ \E inUse \in BOOLEAN, ok \in BOOLEAN : StartHttpServer(inUse, ok)
    \/ \E ok \in BOOLEAN : LaunchSupervisor(ok)
    \/ ShowStatus
    \/ \E p \in Processes : ProcessExits(p)
    \/ SupervisorSpawns
    \/ \E c \in Services : ContainerStops(c)
SpecScript == Init /\ [][NextScript]_vars

\* ======================================================== LatencyTester
\* limits of one tester specification: lim.tests caps the tests begun,
\* lim.perf is where performance.now() stops, in tenths
TesterLimits == [tests |-> MaxTests, perf |-> MaxPerf * 10]
TesterHistoryLimits == [tests |-> HistTests, perf |-> HistPerf * 10]

\* Math.min(...this.latencyHistory) and Math.max(...this.latencyHistory)
MinOf(h) == CHOOSE x \in {h[i] : i \in 1..Len(h)} : \A i \in 1..Len(h) : x <= h[i]
MaxOf(h) == CHOOSE x \in {h[i] : i \in 1..Len(h)} : \A i \in 1..Len(h) : x >= h[i]

\* mutant: getStats truncating the average where it rounds the minimum
GetStats_Truncated(h) ==
    IF Len(h) = 0 THEN ZeroStats
    ELSE [average |-> Sum(h) \div (10 * Len(h)),
          min |-> RoundTenths(MinOf(h)),
          max |-> RoundTenths(MaxOf(h)),
          count |-> Len(h)]

\* getStats(): zeros for an empty history, else the rounded mean (the sum of
\* the tenths over ten times the length), the rounded extremes and the length
GetStats(h) ==
    IF Len(h) = 0 THEN ZeroStats
    ELSE [average |-> RoundDiv(Sum(h), 10 * Len(h)),
          min |-> RoundTenths(MinOf(h)),
          max |-> RoundTenths(MaxOf(h)),
          count |-> Len(h)]

\* updateLatencyDisplay: the text is the rounded latency, the colour is chosen
\* from the latency itself
UpdateLatencyDisplay(latency) ==
    [kind |-> "value", val |-> RoundTenths(latency),
     color |-> IF latency < GreenBelow * 10 THEN "green"
               ELSE IF latency < YellowBelow * 10 THEN "yellow" ELSE "red"]

\* this.latencyHistory.push(latency); if (length > maxHistorySize) shift()
PushLatency(h, latency) ==
    IF Len(h) + 1 > MaxHistorySize THEN Tail(Append(h, latency))
    ELSE Append(h, latency)

\* mutant: endTest leaving isTestRunning set
EndTest_StaysRunning(t) ==
    IF ~t.isTestRunning THEN t
    ELSE [t EXCEPT !.listeners = @ \ {t.cleanupListener},
                   !.cleanupListener = 0,
                   !.latencyHistory = PushLatency(@, t.perfNow - t.testStartTime)]

\* endTest(result) on the fields t: nothing unless a test is running; else the
\* test is over, the listener cleanupListener stands for is removed, and the
\* time since testStartTime is stored
EndTest(t) ==
    IF ~t.isTestRunning THEN t
    ELSE [t EXCEPT !.isTestRunning = FALSE,
                   !.listeners = @ \ {t.cleanupListener},
                   !.cleanupListener = 0,
                   !.latencyHistory = PushLatency(@, t.perfNow - t.testStartTime)]

\* what a callback that reached endTest with a test running leaves on the page
\* and in the observer: the display, the log of latencies and logStatistics
Ended(name, id) ==
    LET latency == tester.perfNow - tester.testStartTime IN
    /\ latencyValue' = UpdateLatencyDisplay(latency)
    /\ lastTest' = [lastTest EXCEPT !.op = name, !.outcome = "ended", !.by = id,
                                    !.ends = @ + 1,
                                    !.all = Append(@, latency),
                                    !.stats = GetStats(tester'.latencyHistory)]

\* a callback that found no test running
Idle(name, id) ==
    /\ lastTest' = [lastTest EXCEPT !.op = name, !.outcome = "idle", !.by = id]
    /\ UNCHANGED latencyValue

\* sendBeep() up to its first await: refused while a test runs or while the
\* client is not connected, else the test begins
SendBeep(lim) ==
    /\ IF tester.isTestRunning THEN
          /\ lastTest' = [lastTest EXCEPT !.op = "sendBeep", !.outcome = "running",
                                          !.by = 0]
          /\ UNCHANGED tester
       ELSE IF ~isConnected THEN
          /\ lastTest' = [lastTest EXCEPT !.op = "sendBeep", !.outcome = "offline",
                                          !.by = 0]
          /\ UNCHANGED tester
       ELSE
          /\ lastTest.test < lim.tests
          /\ tester' = [tester EXCEPT !.isTestRunning = TRUE,
                                      !.testStartTime = tester.perfNow,
                                      !.sending = @ \cup {lastTest.test + 1}]
          /\ lastTest' = [lastTest EXCEPT !.op = "sendBeep", !.outcome = "started",
                                          !.by = lastTest.test + 1,
                                          !.test = @ + 1, !.ends = 0]
    /\ UNCHANGED <<fields, page, runtime, observers, script>>

\* the rest of sendBeep for test id, once createAudioTrackFromBuffer and
\* publishBeep have settled: startEchoDetection (a listener on the room, if
\* there still is one) and the 5 second timeout, or the catch block
BeepPublished(id, ok) ==
    /\ id \in tester.sending
    /\ IF ok THEN
          /\ tester' = [tester EXCEPT
                 !.sending = @ \ {id},
                 !.listeners = IF room # 0 THEN @ \cup {id} ELSE @,
                 !.cleanupListener = IF room # 0 THEN id ELSE @,
                 !.timeouts = @ \cup {[deadline |-> tester.perfNow + TestTimeout * 10,
                                       test |-> id]}]
          /\ lastTest' = [lastTest EXCEPT !.op = "published", !.outcome = "armed",
                                          !.by = id]
       ELSE
          /\ tester' = [tester EXCEPT !.sending = @ \ {id}, !.isTestRunning = FALSE]
          /\ lastTest' = [lastTest EXCEPT !.op = "published", !.outcome = "failed",
                                          !.by = id]
    /\ UNCHANGED <<fields, page, runtime, observers, script>>

\* the room reports an audio track of the agent: every onTrackSubscribed still
\* registered runs analyzeIncomingAudio, the oldest first; the first one that
\* finds a test running ends it, the others find none
AgentTrackSubscribed ==
    /\ tester.listeners # {}
    /\ room # 0 /\ roomState[room] = "connected"
    /\ LET first == CHOOSE i \in tester.listeners : \A o \in tester.listeners : i <= o IN
       IF tester.isTestRunning THEN
          /\ tester' = EndTest(tester)
          /\ Ended("audio", first)
       ELSE
          /\ UNCHANGED tester
          /\ Idle("audio", first)
    /\ UNCHANGED <<fields, avgLatencyValue, joinBtnDisabled, leaveBtnDisabled, runtime,
                   observers, script>>

\* the 5 second timeout tm runs: if (this.isTestRunning) this.endTest(...)
TestTimeoutFires(tm) ==
    /\ tm \in tester.timeouts
    /\ tm.deadline <= tester.perfNow
    /\ IF tester.isTestRunning THEN
          /\ tester' = EndTest([tester EXCEPT !.timeouts = @ \ {tm}])
          /\ Ended("timeout", tm.test)
       ELSE
          /\ tester' = [tester EXCEPT !.timeouts = @ \ {tm}]
          /\ Idle("timeout", tm.test)
    /\ UNCHANGED <<fields, avgLatencyValue, joinBtnDisabled, leaveBtnDisabled, runtime,
                   observers, script>>

\* getStats() called on the tester
GetStatsCall ==
    /\ lastTest' = [lastTest EXCEPT !.op = "getStats", !.outcome = "reported",
                                    !.by = 0,
                                    !.stats = GetStats(tester.latencyHistory)]
    /\ UNCHANGED <<tester, fields, page, runtime, observers, script>>

\* performance.now() moves on; a timeout runs when its delay has elapsed, so
\* the clock does not pass a deadline
PerfDeadlines == {tm.deadline : tm \in tester.timeouts}
PerfAdvance(d, lim) ==
    /\ tester.perfNow + d <= lim.perf
    /\ \A dl \in PerfDeadlines : dl > tester.perfNow
    /\ tester' = [tester EXCEPT !.perfNow =
                     IF \E dl \in PerfDeadlines : dl < tester.perfNow + d
                        THEN CHOOSE dl \in PerfDeadlines : \A o \in PerfDeadlines : dl <= o
                        ELSE tester.perfNow + d]
    /\ lastTest' = [lastTest EXCEPT !.op = "advance", !.outcome = "none", !.by = 0]
    /\ UNCHANGED <<fields, page, runtime, observers, script>>

\* the tester's own callbacks
Tester(lim) ==
    \/ SendBeep(lim)
    \/ \E id \in tester.sending, ok \in BOOLEAN : BeepPublished(id, ok)
    \/ AgentTrackSubscribed
    \/ \E tm \in tester.timeouts : TestTimeoutFires(tm)
    \/ \E d \in PerfSteps : PerfAdvance(d, lim)

\* ------------------------------------------------------- specifications
Session(lim) ==
    \/ \E j \in lim.joins : JoinClick(j)
    \/ \E j \in Joins, ok \in BOOLEAN : ConnectSettles(j, ok)
    \/ \E j \in Joins : MicFails(j)
    \/ \E j \in Joins, g \in BOOLEAN, l \in Levels : JoinCompletes(j, g, l, lim)
    \/ \E j \in Joins, g \in BOOLEAN : TrackSubscribed(j, g)

Turn(lim) ==
    \/ \E l \in Levels : Tick(l, lim)
    \/ \E k \in {"play", "canplay"} : AudioEvent(k, lim)
    \/ \E a \in Averages : CheckAudioActivity(a, lim)
    \/ \E t \in BagToSet(timers) : TimerFire(t)
    \/ \E d \in TimeSteps : Advance(d)

Teardown ==
    \/ \E j \in Joins : RoomDisconnected(j)
    \/ LeaveClick
    \/ \E ok \in BOOLEAN : LeaveCompletes(ok)

Agent(msgs, lim) ==
    \/ \E j \in Joins, m \in msgs : DataReceived(j, m, lim)
    \/ TriggerTest(lim)

\* the two messages that bracket a turn's processing
TurnReports == {m \in Messages :
                  /\ m.type \in {"processing_start", "processing_complete"}
                  /\ m.latency_ms.tag \in {"missing", "num"}}

\* the whole page
Next == Session(EngineLimits) \/ Turn(EngineLimits) \/ Teardown
           \/ Agent(Messages, EngineLimits) \/ ShowLatencyStatistics
           \/ NextScript \/ Tester(TesterLimits) \/ GetStatsCall
Spec == Init /\ [][Next]_vars

\* session set-up, volume ticks, echo triggers, timers and the clock only
NextTurn == Session(EngineLimits) \/ Turn(EngineLimits)
SpecTurn == Init /\ [][NextTurn]_vars

\* the engine within one session: the above with the agent's turn reports and
\* triggerTestLatencyMeasurement
NextEngine == Session(EngineLimits) \/ Turn(EngineLimits) \/ Agent(TurnReports, EngineLimits)
SpecEngine == Init /\ [][NextEngine]_vars

\* local echo detections only, up to HistLimit of them: a session is set up,
\* triggerTestLatencyMeasurement or a tick opens a window and an echo trigger
\* records it, with the clock running
NextHistory ==
    \/ Session(HistoryLimits)
    \/ TriggerTest(HistoryLimits)
    \/ \E k \in {"play", "canplay"} : AudioEvent(k, HistoryLimits)
    \/ \E d \in TimeSteps : Advance(d)
SpecHistory == Init /\ [][NextHistory]_vars

\* sessions one after another: joins, ticks, echo triggers, timers, teardown by
\* leaveRoom or a Disconnected event, a rejoin, and triggerTestLatencyMeasurement
NextSessions ==
    \/ Session(EngineLimits)
    \/ Turn(EngineLimits)
    \/ Teardown
    \/ TriggerTest(EngineLimits)
SpecSessions == Init /\ [][NextSessions]_vars

\* a rejoin after a session whose volume probe ran: three joinRoom invocations
\* that succeed, ticks, timers, teardown and triggerTestLatencyMeasurement
NextRejoin ==
    \/ \E j \in Joins : JoinClick(j)
    \/ \E j \in Joins : ConnectSettles(j, TRUE)
    \/ \E j \in Joins, l \in Levels : JoinCompletes(j, TRUE, l, SessionLimits)
    \/ \E l \in Levels : Tick(l, SessionLimits)
    \/ \E t \in BagToSet(timers) : TimerFire(t)
    \/ \E d \in TimeSteps : Advance(d)
    \/ Teardown
    \/ TriggerTest(SessionLimits)
SpecRejoin == Init /\ [][NextRejoin]_vars

\* the agent's reports: every payload the data channel can deliver, received in
\* the session of one joinRoom that succeeds, in which
\* triggerTestLatencyMeasurement and the play listener open and close windows
NextMessages ==
    \/ JoinClick(1)
    \/ ConnectSettles(1, TRUE)
    \/ \E l \in Levels : JoinCompletes(1, TRUE, l, EngineLimits)
    \/ TrackSubscribed(1, TRUE)
    \/ \E m \in Messages : DataReceived(1, m, EngineLimits)
    \/ TriggerTest(EngineLimits)
    \/ AudioEvent("play", EngineLimits)
SpecMessages == Init /\ [][NextMessages]_vars

\* the statistics of showLatencyStatistics over the histories that latency_update
\* reports build in the session of one joinRoom that succeeds
MaxStats == 4
StatLimits == [records |-> MaxStats, joins |-> FirstJoins]
StatTenths == {1000, 1010, 3000, 5000, 7000}
StatReports ==
    {[type |-> "latency_update", latency_ms |-> [tag |-> "num", val |-> v],
      timestamp |-> 0] : v \in StatTenths}
NextStatistics ==
    \/ JoinClick(1)
    \/ ConnectSettles(1, TRUE)
    \/ \E l \in Levels : JoinCompletes(1, TRUE, l, StatLimits)
    \/ \E m \in StatReports : DataReceived(1, m, StatLimits)
    \/ ShowLatencyStatistics
SpecStatistics == Init /\ [][NextStatistics]_vars

\* the displays: reports whose rounded latency falls on and next to the two
\* colour thresholds, and the local echo path, in the session of one joinRoom
\* that succeeds
DisplayTenths == {2994, 3000, 6000, 6004, 6005}
DisplayReports ==
    {[type |-> ty, latency_ms |-> [tag |-> "num", val |-> v], timestamp |-> 0] :
        ty \in {"processing_complete", "latency_update"}, v \in DisplayTenths}
NextDisplay ==
    \/ JoinClick(1)
    \/ ConnectSettles(1, TRUE)
    \/ \E l \in Levels : JoinCompletes(1, TRUE, l, EngineLimits)
    \/ TrackSubscribed(1, TRUE)
    \/ \E m \in DisplayReports : DataReceived(1, m, EngineLimits)
    \/ TriggerTest(EngineLimits)
    \/ AudioEvent("play", EngineLimits)
SpecDisplay == Init /\ [][NextDisplay]_vars

\* the history past its cap: in the session of one joinRoom that succeeds, and
\* through its teardown, the agent reports latencies that grow by one ms from
\* the newest entry (so every entry can be told from the others), the local echo
\* path records the first entries, and showLatencyStatistics runs at any point
MaxLatency == 30
StoreTenths == {10 * v : v \in 1..MaxLatency}
StoreReports ==
    {[type |-> ty, latency_ms |-> [tag |-> "num", val |-> v], timestamp |-> 0] :
        ty \in {"processing_complete", "latency_update"}, v \in StoreTenths}
Newest(ms) == IF ms = <<>> THEN 0 ELSE ms[Len(ms)]
NextStore ==
    \/ JoinClick(1)
    \/ ConnectSettles(1, TRUE)
    \/ \E l \in Levels : JoinCompletes(1, TRUE, l, EngineLimits)
    \/ TrackSubscribed(1, TRUE)
    \/ \E m \in StoreReports :
          /\ m.latency_ms.val = 10 * (Newest(latencyMeasurements) + 1)
          /\ DataReceived(1, m, HistoryLimits)
    \/ TriggerTest(EngineLimits)
    \/ AudioEvent("play", EngineLimits)
    \/ ShowLatencyStatistics
    \/ Teardown
SpecStore == Init /\ [][NextStore]_vars

\* the engine under fair scheduling: joins that succeed, the updateVolume loop,
\* the timers, the clock, the play listener and the agent's turn reports; an
\* animation frame that is due runs, a timer that is due fires and the clock
\* moves on, while echoes and agent messages may never come
NextClosing ==
    \/ \E j \in FirstJoins : JoinClick(j)
    \/ \E j \in FirstJoins : ConnectSettles(j, TRUE)
    \/ \E j \in FirstJoins, l \in Levels : JoinCompletes(j, TRUE, l, EngineLimits)
    \/ \E j \in FirstJoins : TrackSubscribed(j, TRUE)
    \/ \E l \in Levels : Tick(l, EngineLimits)
    \/ \E t \in BagToSet(timers) : TimerFire(t)
    \/ \E d \in TimeSteps : Advance(d)
    \/ AudioEvent("play", EngineLimits)
    \/ \E j \in FirstJoins, m \in TurnReports : DataReceived(j, m, EngineLimits)
SpecClosing ==
    /\ Init /\ [][NextClosing]_vars
    /\ WF_vars(\E l \in Levels : Tick(l, EngineLimits))
    /\ WF_vars(\E t \in BagToSet(timers) : TimerFire(t))
    /\ WF_vars(\E d \in TimeSteps : Advance(d))

\* the two probes alone: joins whose analyser graphs are built or fail, the
\* updateVolume and checkAudioActivity loops, timers, the clock and
\* triggerTestLatencyMeasurement; the play and canplay listeners stay silent, so
\* every echo trigger comes from the remote probe
NextProbes ==
    \/ Session(EngineLimits)
    \/ \E l \in Levels : Tick(l, EngineLimits)
    \/ \E a \in Averages : CheckAudioActivity(a, EngineLimits)
    \/ \E t \in BagToSet(timers) : TimerFire(t)
    \/ \E d \in TimeSteps : Advance(d)
    \/ TriggerTest(EngineLimits)
SpecProbes == Init /\ [][NextProbes]_vars

\* one continuous utterance: every reading of the microphone level is above the
\* threshold, from the first updateVolume call on, while the remote probe and
\* the media listeners fire and the clock runs
Loud == {l \in Levels : IsSpeaking(l)}
NextUtterance ==
    \/ \E j \in FirstJoins : JoinClick(j)
    \/ \E j \in FirstJoins : ConnectSettles(j, TRUE)
    \/ \E j \in FirstJoins, l \in Loud : JoinCompletes(j, TRUE, l, EngineLimits)
    \/ \E j \in FirstJoins : TrackSubscribed(j, TRUE)
    \/ \E l \in Loud : Tick(l, EngineLimits)
    \/ \E k \in {"play", "canplay"} : AudioEvent(k, EngineLimits)
    \/ \E a \in Averages : CheckAudioActivity(a, EngineLimits)
    \/ \E d \in TimeSteps : Advance(d)
SpecUtterance == Init /\ [][NextUtterance]_vars

\* the latency tester on a page with one session: the session is set up and
\* torn down, beeps are sent, published or not, the agent's audio arrives, the
\* 5 second timeouts run and performance.now() moves on
NextTester ==
    \/ JoinClick(1)
    \/ ConnectSettles(1, TRUE)
    \/ \E l \in Levels : JoinCompletes(1, FALSE, l, EngineLimits)
    \/ Teardown
    \/ Tester(TesterLimits)
    \/ GetStatsCall
SpecTester == Init /\ [][NextTester]_vars

\* the history of the tester past its cap: up to HistTests tests in one
\* session, each answered by the agent's audio before its timeout is due
NextTesterHistory ==
    \/ JoinClick(1)
    \/ ConnectSettles(1, TRUE)
    \/ \E l \in Levels : JoinCompletes(1, FALSE, l, EngineLimits)
    \/ SendBeep(TesterHistoryLimits)
    \/ \E id \in tester.sending : BeepPublished(id, TRUE)
    \/ AgentTrackSubscribed
    \/ \E d \in PerfSteps : PerfAdvance(d, TesterHistoryLimits)
    \/ GetStatsCall
SpecTesterHistory == Init /\ [][NextTesterHistory]_vars

\* ================================================================ claims

\* C1: in runs of volume ticks, echo triggers and timeouts only, no step taken
\* while a window is open (isWaitingForEcho) emits a Start or changes
\* speechStartTime; in particular a tick with level > 5 does neither.
C1_NoStartWhileOpen ==
    [][isWaitingForEcho =>
          (speechStartTime' = speechStartTime /\ lastOp'.outcome # "Start")]_vars

\* a tick read level 6 while the window was open and started nothing
C1_Witness ==
    /\ lastOp = Op("tick", "none", 6)
    /\ isWaitingForEcho
    /\ speechStartTime # 0

\* C2: a timer armed during an earlier turn (its start time is not the current
\* speechStartTime) that fires while a window is open leaves isWaitingForEcho
\* and isProcessingResponse as they were.
C2_StaleTimerHarmless ==
    [][(lastOp'.name = "timer" /\ lastOp'.arg # speechStartTime /\ isWaitingForEcho)
          => (isWaitingForEcho' /\ isProcessingResponse' = isProcessingResponse)]_vars

\* C3: once the timeout armed at the speech end of the current turn has elapsed
\* with no echo recorded, the turn has had exactly one TimedOut transition and
\* no local measurement.
C3_TimeoutExclusive == win.expired => (win.timeouts = 1 /\ win.records = 0)

\* C4: the value an echo detection appends is the detection time minus the time
\* of the Start that opened the window.
C4_LatencyFromOpeningStart ==
    [][(lastOp'.name = "echo" /\ lastOp'.outcome = "record")
          => latencyMeasurements' = Append(latencyMeasurements, now - win.openedAt)]_vars

\* C5: latencyMeasurements never holds more than 20 entries.
C5_HistoryCapped == Len(latencyMeasurements) <= HistoryCap

\* C6: while the session of a joinRoom that completed with volume monitoring
\* started is connected, an updateVolume loop is running.
C6_ProbeRunsAfterJoin ==
    (isConnected /\ \E j \in Joins : pc[j] = "done" /\ roomState[j] = "connected")
        => volumeLoops > 0

\* C7: at most one local measurement is recorded per opened window, whatever
\* echo triggers fire and in whatever order.
C7_OneRecordPerWindow == win.records <= 1

\* an echo trigger fired after the window's measurement was recorded, and was ignored
C7_Witness ==
    /\ lastOp = Op("echo", "none", 0)
    /\ win.active /\ win.records = 1
    /\ ~isWaitingForEcho

\* C8: after a local measurement of the turn, a processing_complete carrying a
\* numeric latency_ms = S displays round(S) and appends it to the history,
\* the local value staying in place.
C8_ServerAppends ==
    [][(lastOp'.name = "processing_complete" /\ lastOp'.outcome # "none"
          /\ win.records = 1)
          => /\ latencyValue' = Shown(RoundTenths(lastOp'.arg))
             /\ latencyMeasurements' =
                   Append(latencyMeasurements, RoundTenths(lastOp'.arg))]_vars

\* C9: when the echo of a turn is detected right after the turn's server report
\* was recorded, the display keeps the server value.
C9_ServerWinsDisplay ==
    [][(lastOp.name = "processing_complete" /\ lastOp.outcome = "record"
          /\ lastOp'.name = "echo" /\ lastOp'.outcome = "record")
          => latencyValue' = latencyValue]_vars

\* C10: speechStartTime does not change while the window stays open.
C10_StartTimeImmutable ==
    [][(isWaitingForEcho /\ isWaitingForEcho') => speechStartTime' = speechStartTime]_vars

\* C11: a timeout closes the window 8000 ms after the turn's speech end with
\* no measurement appended, and the next tick with level > 5 then emits Start
\* with a fresh speechStartTime.
C11_TimeoutThenReady ==
    [][/\ (lastOp'.name = "timer" /\ lastOp'.outcome = "TimedOut")
            => /\ win.endedAt # 0
               /\ now = win.endedAt + TurnTimeout
               /\ latencyMeasurements' = latencyMeasurements
               /\ ~isWaitingForEcho' /\ ~isProcessingResponse'
       /\ (lastOp.name = "timer" /\ lastOp.outcome = "TimedOut"
             /\ lastOp'.name = "tick" /\ lastOp'.arg > SpeechThreshold)
            => /\ lastOp'.outcome = "Start"
               /\ speechStartTime' = now
               /\ isWaitingForEcho']_vars

\* C12: teardown by either path (the synchronous cleanup of leaveRoom, or the
\* Disconnected handler) leaves isWaitingForEcho = false, isProcessingResponse
\* = false and speechStartTime = null.
C12_TeardownResetsWindow ==
    [][lastOp'.outcome \in {"reset", "disconnecting"}
          => (~isWaitingForEcho' /\ ~isProcessingResponse' /\ speechStartTime' = 0)]_vars

\* C13: a timer armed in an earlier session (the page is connected again, with
\* another Room than the one the timer was armed under) has no effect when it
\* fires: it closes no window of the new session.
C13_TeardownClearsTimers ==
    [][\A t \in BagToSet(timers) :
          (CopiesIn(t, timers') < CopiesIn(t, timers)
             /\ isConnected /\ room # 0 /\ t.room # room)
             => /\ isWaitingForEcho' = isWaitingForEcho
                /\ isProcessingResponse' = isProcessingResponse]_vars

\* C14: when joinRoom makes the page connected (again), latencyMeasurements is
\* empty: no value of an earlier connection is in the history.
C14_HistoryClearedOnReconnect ==
    [][(~isConnected /\ isConnected') => latencyMeasurements' = <<>>]_vars

\* C15: an echo trigger that fires while isWaitingForEcho is false changes
\* nothing: the history, the flags, speechStartTime and the page are as before.
C15_EchoIgnoredWhenClosed ==
    [][(lastOp'.name = "echo" /\ ~isWaitingForEcho) => UNCHANGED <<fields, page>>]_vars

\* an echo trigger fired after a Disconnected event tore down a session whose
\* speechStartTime it left set, and was ignored
C15_Witness ==
    /\ lastOp = Op("echo", "none", 0)
    /\ ~isWaitingForEcho /\ ~isConnected
    /\ speechStartTime # 0

\* C16: processing_start does not keep the speech detector from emitting Start:
\* with no window open, the tick with level > 5 that follows it emits Start.
C16_StartAfterProcessingStart ==
    [][(lastOp.name = "processing_start" /\ ~isWaitingForEcho
          /\ lastOp'.name = "tick" /\ lastOp'.arg > SpeechThreshold)
          => lastOp'.outcome = "Start"]_vars

\* C17: a payload that cannot be parsed, and a message whose type is unknown or
\* missing, leaves isProcessingResponse, isWaitingForEcho, speechStartTime,
\* conversationStartTime and latencyMeasurements unchanged; the handler only logs.
C17_UnknownMessagesDropped ==
    [][lastOp'.name \in {"unknown", "untyped", "null", "unparseable"}
          => /\ UNCHANGED <<isProcessingResponse, isWaitingForEcho, speechStartTime,
                            conversationStartTime, latencyMeasurements>>
             /\ lastOp'.outcome \in {"logged", "parse error"}]_vars

\* a message of unknown type was logged while a window was open, processing
\* had been announced and the history held a measurement
C17_Witness ==
    /\ lastOp = Op("unknown", "logged", 0)
    /\ isProcessingResponse /\ isWaitingForEcho
    /\ conversationStartTime # 0
    /\ latencyMeasurements # <<>>

\* C18: a processing_complete whose latency_ms is not a number (missing, null
\* or a string) leaves isProcessingResponse, isWaitingForEcho, speechStartTime
\* and latencyMeasurements as they were.
C18_MalformedCompleteDiscarded ==
    [][(lastOp'.name = "processing_complete"
          /\ lastOp'.outcome \in {"none", "record NaN"})
          => UNCHANGED <<isProcessingResponse, isWaitingForEcho, speechStartTime,
                         latencyMeasurements>>]_vars

\* C19: every processing_complete and latency_update carrying a numeric
\* latency_ms, 0 included, appends that value rounded to the history.
C19_NumericReportsAppended ==
    [][(lastOp'.name \in {"processing_complete", "latency_update"}
          /\ lastOp'.outcome \in {"record", "dropped"})
          => latencyMeasurements' =
                Append(latencyMeasurements, RoundTenths(lastOp'.arg))]_vars

\* the k-th smallest value of a history, by counting
KthSmallest(ms, k) ==
    CHOOSE v \in {ms[i] : i \in 1..Len(ms)} :
        /\ Cardinality({i \in 1..Len(ms) : ms[i] < v}) < k
        /\ k <= Cardinality({i \in 1..Len(ms) : ms[i] <= v})

\* r is q / d rounded to the nearest integer, a half rounding up
Nearest(r, q, d) == 2 * r * d - d <= 2 * q /\ 2 * q < 2 * r * d + d

\* C20 as stated: over a non-empty history showLatencyStatistics reports the
\* arithmetic mean, the median (the middle element of the sorted values, the
\* mean of the two middle ones when the count is even), the smallest and the
\* largest value, the number of values strictly below 600 and the ratio
\* count / length; for [100, 300, 500, 700] these are 400, 400, 3 and 75%.
C20_StatisticsExact ==
    (lastOp.name = "stats" /\ lastOp.outcome = "logged") =>
        LET ms == latencyMeasurements
            n  == Len(ms)
            st == lastOp.arg
        IN  /\ st.avg * n = Sum(ms)
            /\ IF n % 2 = 0
                  THEN 2 * st.median
                          = KthSmallest(ms, n \div 2) + KthSmallest(ms, n \div 2 + 1)
                  ELSE st.median = KthSmallest(ms, n \div 2 + 1)
            /\ st.min = KthSmallest(ms, 1)
            /\ st.max = KthSmallest(ms, n)
            /\ st.under600 = Cardinality({i \in 1..n : ms[i] < 600})
            /\ st.percentage * n = 100 * st.under600
            /\ ms = <<100, 300, 500, 700>> =>
                  st.avg = 400 /\ st.median = 400 /\ st.under600 = 3
                  /\ st.percentage = 75

\* C20, amended: over a non-empty history of integers showLatencyStatistics
\* reports the arithmetic mean rounded to the nearest integer, the median (the
\* middle element of the sorted values, the mean of the two middle ones rounded
\* to the nearest integer when the count is even), the smallest and the largest
\* value, the number of values strictly below 600 and that count as a
\* percentage of the length rounded to the nearest integer, a half rounding up
\* each time; for [100, 300, 500, 700] these are 400, 400, 3 and 75%.
C20_StatisticsRounded ==
    (lastOp.name = "stats" /\ lastOp.outcome = "logged") =>
        LET ms == latencyMeasurements
            n  == Len(ms)
            st == lastOp.arg
        IN  /\ n > 0 /\ st.count = n
            /\ Nearest(st.avg, Sum(ms), n)
            /\ IF n % 2 = 0
                  THEN Nearest(st.median,
                               KthSmallest(ms, n \div 2) + KthSmallest(ms, n \div 2 + 1), 2)
                  ELSE st.median = KthSmallest(ms, n \div 2 + 1)
            /\ st.min = KthSmallest(ms, 1)
            /\ st.max = KthSmallest(ms, n)
            /\ st.under600 = Cardinality({i \in 1..n : ms[i] < 600})
            /\ Nearest(st.percentage, 100 * st.under600, n)
            /\ ms = <<100, 300, 500, 700>> =>
                  st.avg = 400 /\ st.median = 400 /\ st.under600 = 3
                  /\ st.percentage = 75

\* the statistics of [100, 300, 500, 700] have been logged
C20_Witness ==
    /\ lastOp.name = "stats" /\ lastOp.outcome = "logged"
    /\ latencyMeasurements = <<100, 300, 500, 700>>
    /\ lastOp.arg = [count |-> 4, avg |-> 400, min |-> 100, max |-> 700,
                     median |-> 400, under600 |-> 3, percentage |-> 75]

\* C21: every latency value on display (the current value and the running
\* average, whichever path wrote it) is coloured by the fixed thresholds: green
\* below 300, yellow from 300 to 600 inclusive, red above 600.
C21_ColourThresholds ==
    \A d \in {latencyValue, avgLatencyValue} :
        (d.kind = "value" /\ d.val >= 0) =>
            d.color = IF d.val < 300 THEN "green"
                      ELSE IF d.val <= 600 THEN "yellow" ELSE "red"

\* C22: every step leaves the history as it was, or appends one value at its
\* end, or evicts its oldest entry, or does both; the entries that stay keep
\* their values and their order; showLatencyStatistics leaves it unchanged.
C22_AppendOnly ==
    [][LET old == latencyMeasurements
           new == latencyMeasurements'
       IN  /\ \/ new = old
              \/ Len(new) = Len(old) + 1 /\ SubSeq(new, 1, Len(old)) = old
              \/ Len(old) > 0 /\ new = Tail(old)
              \/ Len(old) > 0 /\ Len(new) = Len(old)
                    /\ SubSeq(new, 1, Len(new) - 1) = Tail(old)
           /\ lastOp'.name = "stats" => new = old]_vars

\* statistics were logged over a history whose oldest entries have been evicted
C22_Witness ==
    /\ lastOp.name = "stats" /\ lastOp.outcome = "logged"
    /\ Len(latencyMeasurements) >= HistoryCap
    /\ latencyMeasurements[1] > 3
    /\ \A i \in 1..(Len(latencyMeasurements) - 1) :
          latencyMeasurements[i] < latencyMeasurements[i + 1]

\* C23: a window that is open when a tick finds the user silent (level <= 5),
\* early enough for an 8000 ms timeout to run, is eventually closed.
C23_WindowEventuallyCloses ==
    (/\ isWaitingForEcho
     /\ lastOp.name = "tick" /\ lastOp.outcome \in {"End", "none"} /\ lastOp.arg <= 5
     /\ now + 8000 <= MaxTime)
        ~> ~isWaitingForEcho

\* C24: a join whose local analyser graph cannot be built still completes and
\* connects, and starts no updateVolume loop; a subscription whose remote graph
\* cannot be built still attaches the element, leaves the session as it was and
\* starts no checkAudioActivity loop; loops come from graphs that were built
\* only, and no tick and no energy-triggered echo happens without a loop.
C24_FailedProbeSilent ==
    [][/\ (\E j \in Joins : pc[j] = "mic" /\ pc'[j] = "unmonitored")
             => /\ isConnected' /\ volumeLoops' = volumeLoops
                /\ lastOp' = Op("join", "completed", 0)
                /\ UNCHANGED <<isProcessingResponse, isWaitingForEcho,
                               speechStartTime, latencyMeasurements>>
       /\ (lastOp'.name = "track" /\ lastOp'.outcome = "no graph")
             => /\ echoLoops' = echoLoops /\ audioEls' = audioEls + 1
                /\ UNCHANGED <<fields, page>>
       /\ volumeLoops' > volumeLoops
             => \E j \in Joins : pc[j] = "mic" /\ pc'[j] = "done"
       /\ echoLoops' > echoLoops => lastOp' = Op("track", "probe", 0)
       /\ lastOp'.name = "tick"
             => \/ volumeLoops > 0
                \/ \E j \in Joins : pc[j] = "mic" /\ pc'[j] = "done"
       /\ lastOp'.name = "echo" => echoLoops > 0]_vars

\* a connected session with an open window whose two graphs both failed
C24_Witness ==
    /\ isConnected /\ isWaitingForEcho
    /\ \E j \in Joins : pc[j] = "unmonitored" /\ roomState[j] = "connected"
    /\ \A j \in Joins : pc[j] # "done"
    /\ audioEls = 1 /\ echoLoops = 0 /\ volumeLoops = 0
    /\ now > 4000

\* the steps of run.sh start
StartOrder == <<"cleanup", "prerequisites", "docker", "http", "agent", "status">>

\* C25: run.sh start begins its steps in the order cleanup, prerequisites,
\* Docker services, HTTP server, agent supervisor; the supervisor is launched
\* only with LiveKit and Redis both read as running; the script exits 0 exactly
\* when every step was begun and passed, non-zero otherwise, and once it has
\* exited it begins no step and changes nothing.
C25_StartInOrder ==
    [][shell'.cmd = "start" =>
          /\ Len(steps') <= Len(StartOrder)
          /\ steps' = SubSeq(StartOrder, 1, Len(steps'))
          /\ (shell.pc = "agent:launch" /\ shell'.pc = "status")
                => /\ shell.livekit_running /\ shell.redis_running
                   /\ steps = SubSeq(StartOrder, 1, 5)
          /\ (shell'.exited /\ ~shell.exited)
                => (shell'.status = 0 <=> steps' = StartOrder)
          /\ shell.exited => UNCHANGED script]_vars

\* run.sh start went through every step and left the services running
C25_Witness ==
    /\ shell.cmd = "start" /\ shell.exited /\ shell.status = 0
    /\ steps = StartOrder
    /\ host.up = Services
    /\ {"supervisor.py", "http.server"} \subseteq host.running

\* C26: stop_process never ends the script: from its polling loop the script
\* stays in the loop, at most timeout polls long, or goes on to the kill -9 and
\* from there returns to the caller; it does so too when the process is still
\* running after the first signal.
C26_StopProcessReturns ==
    [][/\ shell.pc = "stop_process:wait"
             => /\ ~shell'.exited
                /\ shell'.pc \in {"stop_process:wait", "stop_process:kill"}
                /\ shell'.count <= shell.timeout
       /\ shell.pc = "stop_process:kill"
             => /\ shell'.pc = shell.ret /\ ~shell'.exited
                /\ ~(shell.name \in host'.running)]_vars

\* C27: a timeout that fires while the window awaits its echo closes the window;
\* one that fires with the window already closed changes nothing.
C27_TimeoutTestsAwaitingEcho ==
    [][lastOp'.name = "timer" =>
          IF isWaitingForEcho
             THEN ~isWaitingForEcho'
             ELSE UNCHANGED <<isWaitingForEcho, isProcessingResponse>>]_vars

\* C28: the pending timers armed for one turn (one speechStartTime) number at
\* most one.
C28_OneTimerPerTurn ==
    \A t \in BagToSet(timers) :
        /\ CopiesIn(t, timers) <= 1
        /\ \A u \in BagToSet(timers) : u.turn = t.turn => u = t

\* C29: while every tick reads a level above 5, a Start is emitted only when
\* none was emitted before, and the history never holds more than one local
\* measurement, whatever the remote probe and the media listeners do.
C29_OneTurnPerUtterance ==
    [][/\ (lastOp'.name = "tick" /\ lastOp'.outcome = "Start") => speechStartTime = 0
       /\ Len(latencyMeasurements') <= 1]_vars

\* C30: a processing_start received while the updateVolume loop runs, in a
\* session in which no speech has been detected yet (speechStartTime is null),
\* early enough for a timeout to run, is eventually followed by
\* isProcessingResponse = false.
C30_ProcessingEventuallyClears ==
    (/\ lastOp.name = "processing_start" /\ isProcessingResponse
     /\ speechStartTime = 0 /\ volumeLoops > 0
     /\ now + 8000 <= MaxTime)
        ~> ~isProcessingResponse

\* C31: after every step that records a measurement the average on display is
\* the mean of the history, rounded to the nearest integer.
C31_AverageCurrent ==
    [][lastOp'.outcome = "record" =>
          /\ avgLatencyValue'.kind = "value"
          /\ Nearest(avgLatencyValue'.val, Sum(latencyMeasurements'),
                     Len(latencyMeasurements'))]_vars

\* C32: at most one Room whose handlers are registered is connected at a time.
C32_OneLiveSession ==
    Cardinality({j \in Joins : roomState[j] = "connected"}) <= 1

C34_TimeoutEndsOwnTest ==
    [][(/\ tester'.timeouts # tester.timeouts /\ lastTest'.op = "timeout"
        /\ lastTest'.by < lastTest.test
        /\ tester.isTestRunning
        /\ \E own \in tester'.timeouts :
              own.test = lastTest.test /\ own.deadline > tester.perfNow) =>
          /\ tester'.isTestRunning
          /\ tester'.latencyHistory = tester.latencyHistory
          /\ lastTest'.all = lastTest.all]_vars

\* C35: a test ended by its 5 second timeout stores no latency and changes
\* neither the displayed latency nor the statistics getStats reports.
C35_TimeoutStoresNothing ==
    [][(/\ tester'.timeouts # tester.timeouts /\ lastTest'.op = "timeout"
        /\ tester.isTestRunning /\ ~tester'.isTestRunning) =>
          /\ tester'.latencyHistory = tester.latencyHistory
          /\ latencyValue' = latencyValue
          /\ GetStats(tester'.latencyHistory) = GetStats(tester.latencyHistory)]_vars

\* C36: latencyHistory never holds more than maxHistorySize entries; it is the
\* last entries, in their order, of everything endTest ever stored; getStats
\* reports the length of the history as count and min <= average <= max, and
\* all zeros for an empty history; the statistics last reported are those of
\* the history as it stands.
C36_HistoryAndStats ==
    LET h == tester.latencyHistory
        a == lastTest.all
        s == GetStats(h)
    IN  /\ Len(h) <= MaxHistorySize
        /\ Len(h) = Min(Len(a), MaxHistorySize)
        /\ \A i \in 1..Len(h) : h[i] = a[Len(a) - Len(h) + i]
        /\ s.count = Len(h)
        /\ s.min <= s.average /\ s.average <= s.max
        /\ Len(h) = 0 => (s.average = 0 /\ s.min = 0 /\ s.max = 0 /\ s.count = 0)
        /\ lastTest.stats = s

\* more tests have ended than the history holds, the oldest kept entry is not
\* the first one stored, and getStats has just reported a minimum below the
\* average and the average below the maximum
C36_Witness ==
    /\ Len(lastTest.all) > MaxHistorySize
    /\ Len(tester.latencyHistory) = MaxHistorySize
    /\ lastTest.all[1] # tester.latencyHistory[1]
    /\ lastTest.op = "getStats"
    /\ lastTest.stats.count = MaxHistorySize
    /\ lastTest.stats.min < lastTest.stats.average
    /\ lastTest.stats.average < lastTest.stats.max

====
